---- MODULE Spec2Model ----
(***************************************************************************)
(* Model of load_offers.py: the Offer record with its derived year_cost,   *)
(* parse_page (markup document -> list of Offer) and write_xslx (list of   *)
(* Offer -> rows of the report).                                           *)
(*                                                                         *)
(* A text is a sequence of one-character strings, so that the regular      *)
(* expressions and the split/strip calls of the source are computed on     *)
(* characters, as Python computes them.                                    *)
(***************************************************************************)
EXTENDS Integers, Sequences, FiniteSets, TLC

VARIABLES
    doc,      \* the markup document: the sequence of <article> elements
    pc,       \* position of main(): "start", "parsed", "written", or "parse_page raised",
              \* "write_xslx raised"; "cost" in SpecCost
    offers,   \* the list main() holds after parse_page returned
    sheet,    \* the rows of the saved workbook (without the title row)
    exc,      \* the exception that ended main(), "none" otherwise
    o,        \* SpecCost: the Offer whose year_cost is read
    o0,       \* SpecCost: that Offer as it was before the first read
    hist      \* SpecCost: one entry per read of o.year_cost

vars == <<doc, pc, offers, sheet, exc, o, o0, hist>>

----------------------------------------------------------------------------
(* Bounds of the model *)

MaxParts == 3     \* a campaign text of SpecCost is made of at most MaxParts parts
MaxReads == 2     \* year_cost is read at most MaxReads times on one Offer
MaxArticles == 2  \* a document holds at most MaxArticles <article> elements

----------------------------------------------------------------------------
(* Characters *)

Digits == {"0", "1", "2", "3", "4", "5", "6", "7", "8", "9"}

Upper == <<"A", "B", "C", "D", "E", "F", "G", "H", "I", "J", "K", "L", "M", "N",
           "O", "P", "Q", "R", "S", "T", "U", "V", "W", "X", "Y", "Z", "Å">>

Lower == <<"a", "b", "c", "d", "e", "f", "g", "h", "i", "j", "k", "l", "m", "n",
           "o", "p", "q", "r", "s", "t", "u", "v", "w", "x", "y", "z", "å">>

Range(s) == {s[i] : i \in 1..Len(s)}

\* the lower-case letter of each upper-case letter
Folded == [c \in Range(Upper) |-> Lower[CHOOSE i \in 1..Len(Upper) : Upper[i] = c]]

\* re.IGNORECASE compares the case-folded characters
ToLower(c) == IF c \in DOMAIN Folded THEN Folded[c] ELSE c

\* the characters \w of a Python 3 str pattern matches: letters, digits and
\* the underscore
WordChars == Digits \cup Range(Upper) \cup Range(Lower) \cup {"_"}

IsWord(c) == c \in WordChars

\* the characters str.strip() and str.split() treat as whitespace
IsSpace(c) == c \in {" ", "\n", "\t"}

DigitVal(c) ==
    CASE c = "0" -> 0 [] c = "1" -> 1 [] c = "2" -> 2 [] c = "3" -> 3 [] c = "4" -> 4
      [] c = "5" -> 5 [] c = "6" -> 6 [] c = "7" -> 7 [] c = "8" -> 8 [] c = "9" -> 9

----------------------------------------------------------------------------
(* Literals of the source *)

T_tre == <<"t", "r", "e">>
T_man == <<"m", "å", "n">>
T_kr == <<"k", "r">>
T_ett_halvar == <<"e", "t", "t", " ", "h", "a", "l", "v", "å", "r">>

\* "## Campaign parse failed ## "
Marker ==
    <<"#", "#", " ", "C", "a", "m", "p", "a", "i", "g", "n", " ", "p", "a", "r", "s", "e",
      " ", "f", "a", "i", "l", "e", "d", " ", "#", "#", " ">>

----------------------------------------------------------------------------
(* Python values *)

\* an attribute that is None, or a str
NoneVal == [isNone |-> TRUE, text |-> <<>>]
Str(t) == [isNone |-> FALSE, text |-> t]

\* what reading a property gives: an int, a float (both kept as twice the
\* value, so that the halves of the float are exact), or a raised exception
IntRet(v) == [kind |-> "int", twice |-> 2 * v, exc |-> "none"]
FloatRet(t2) == [kind |-> "float", twice |-> t2, exc |-> "none"]
Raise(e) == [kind |-> "raise", twice |-> 0, exc |-> e]

----------------------------------------------------------------------------
(* int(value), IntProp.__set__ *)

RECURSIVE DigitsVal(_)
DigitsVal(t) ==
    IF t = <<>> THEN 0
    ELSE 10 * DigitsVal(SubSeq(t, 1, Len(t) - 1)) + DigitVal(t[Len(t)])

\* int() of a str: the texts of the model hold no sign, no underscore between
\* digits and no surrounding blank at the places int() is called, so the str
\* is an int literal exactly when it is a non-empty run of digits
IntOf(t) ==
    IF t /= <<>> /\ \A i \in 1..Len(t) : t[i] \in Digits
    THEN [ok |-> TRUE, val |-> DigitsVal(t)]
    ELSE [ok |-> FALSE, val |-> 0]

----------------------------------------------------------------------------
(* Regular expressions of year_cost *)

\* the lower-case literal lit matches at position i, ignoring case
MatchAt(s, i, lit) ==
    /\ i >= 1
    /\ i + Len(lit) - 1 <= Len(s)
    /\ \A k \in 1..Len(lit) : ToLower(s[i + k - 1]) = lit[k]

\* \b just before position i
WordBoundary(s, i) ==
    LET before == i > 1 /\ IsWord(s[i - 1])
        after == i <= Len(s) /\ IsWord(s[i])
    IN  before /= after

IsDigitAt(s, i) == i >= 1 /\ i <= Len(s) /\ s[i] \in Digits

\* " ?mån" at position j
RestMonths(s, j) ==
    \/ j <= Len(s) /\ s[j] = " " /\ MatchAt(s, j + 1, T_man)
    \/ MatchAt(s, j, T_man)

\* r"\b(\d\d?|tre) ?mån" tried at position i: group(1), or <<>> when it fails
MonthsAt(s, i) ==
    IF ~WordBoundary(s, i) THEN <<>>
    ELSE IF IsDigitAt(s, i) /\ IsDigitAt(s, i + 1) /\ RestMonths(s, i + 2)
         THEN SubSeq(s, i, i + 1)
    ELSE IF IsDigitAt(s, i) /\ RestMonths(s, i + 1) THEN SubSeq(s, i, i)
    ELSE IF MatchAt(s, i, T_tre) /\ RestMonths(s, i + 3) THEN SubSeq(s, i, i + 2)
    ELSE <<>>

\* re.search(r"\b(\d\d?|tre) ?mån", s, flags=re.IGNORECASE): the leftmost match
MonthsSearch(s) ==
    LET hits == {i \in 1..Len(s) : MonthsAt(s, i) /= <<>>}
    IN  IF hits = {} THEN [found |-> FALSE, group |-> <<>>]
        ELSE [found |-> TRUE,
              group |-> MonthsAt(s, CHOOSE i \in hits : \A j \in hits : i <= j)]

\* the end of the run of digits that starts at i
DigitRunEnd(s, i) ==
    CHOOSE j \in i..Len(s) :
        /\ \A k \in i..j : s[k] \in Digits
        /\ ~IsDigitAt(s, j + 1)

\* " ?kr" at position j
RestKr(s, j) ==
    \/ j <= Len(s) /\ s[j] = " " /\ MatchAt(s, j + 1, T_kr)
    \/ MatchAt(s, j, T_kr)

\* r"(\d+) ?kr" tried at position i: group(1), or <<>> when it fails
PriceAt(s, i) ==
    IF IsDigitAt(s, i) /\ RestKr(s, DigitRunEnd(s, i) + 1)
    THEN SubSeq(s, i, DigitRunEnd(s, i))
    ELSE <<>>

\* re.search(r"(\d+) ?kr", s, flags=re.IGNORECASE): the leftmost match
PriceSearch(s) ==
    LET hits == {i \in 1..Len(s) : PriceAt(s, i) /= <<>>}
    IN  IF hits = {} THEN [found |-> FALSE, group |-> <<>>]
        ELSE [found |-> TRUE,
              group |-> PriceAt(s, CHOOSE i \in hits : \A j \in hits : i <= j)]

\* sub in s
Contains(s, sub) ==
    \E i \in 1..(Len(s) - Len(sub) + 1) : SubSeq(s, i, i + Len(sub) - 1) = sub

----------------------------------------------------------------------------
(* Offer.year_cost *)

\* year_cost without the start cost
FullPriceNoStart(off) == off.list_price * 12

\* start_cost + list_price*12
FullPrice(off) == off.start_cost + off.list_price * 12

\* the reduced months paid on top of twelve full months
ReducedCostFullYear(off, months, reduced_price) ==
    months * reduced_price + off.list_price * 12 + off.start_cost

\* the full-price months counted with the wrong sign
ReducedCostSignSlip(off, months, reduced_price) ==
    months * reduced_price + off.list_price * (months - 12) + off.start_cost

\* months*reduced_price + list_price*(12-months) + start_cost
ReducedCost(off, months, reduced_price) ==
    months * reduced_price + off.list_price * (12 - months) + off.start_cost

\* twice list_price*(months*0.5 + 12 - months) + start_cost
HalfPriceTwice(off, months) ==
    off.list_price * (months + 24 - 2 * months) + 2 * off.start_cost

\* the duration the campaign text resolves to
ResolveMonths(t) ==
    LET months == MonthsSearch(t)
    IN  IF months.found
        THEN IF months.group = T_tre THEN [kind |-> "months", m |-> 3]
             ELSE IF IntOf(months.group).ok
                  THEN [kind |-> "months", m |-> IntOf(months.group).val]
                  ELSE [kind |-> "raise", m |-> 0]   \* ValueError passes "except TypeError"
        ELSE IF Contains(t, T_ett_halvar) THEN [kind |-> "months", m |-> 6]
        ELSE [kind |-> "unresolved", m |-> 0]

\* the marker replacing the campaign text
MarkFailedDropsText(t) == Marker

\* the marker put once only
MarkFailedOnce(t) ==
    IF Len(t) >= Len(Marker) /\ SubSeq(t, 1, Len(Marker)) = Marker THEN t ELSE Marker \o t

\* the campaign field after a failed parse
MarkFailed(t) == Marker \o t

\* a reduced price of zero taken as the price of the campaign months
DiscountedZeroCounts(off, months) ==
    LET reduced == PriceSearch(off.campaign.text)
    IN  IF reduced.found
        THEN IntRet(months * DigitsVal(reduced.group)
                    + off.list_price * (12 - months) + off.start_cost)
        ELSE FloatRet(off.list_price * (months + 24 - 2 * months) + 2 * off.start_cost)

\* the part of year_cost after the duration is known
Discounted(off, months) ==
    LET reduced == PriceSearch(off.campaign.text)
    IN  IF reduced.found /\ DigitsVal(reduced.group) /= 0
        THEN IntRet(ReducedCost(off, months, DigitsVal(reduced.group)))
        ELSE FloatRet(HalfPriceTwice(off, months))

\* reading off.year_cost: the value returned (or the exception raised) and
\* the Offer afterwards.  str(self) of the unresolved branch cannot fail:
\* isp, the only field it concatenates, is a str on every Offer parse_page made.
year_cost(off) ==
    IF off.campaign.isNone \/ off.campaign.text = <<>>
    THEN [ret |-> IntRet(FullPrice(off)), off |-> off]
    ELSE LET d == ResolveMonths(off.campaign.text)
         IN  CASE d.kind = "months" -> [ret |-> Discounted(off, d.m), off |-> off]
               [] d.kind = "raise" -> [ret |-> Raise("ValueError"), off |-> off]
               [] d.kind = "unresolved" ->
                    [ret |-> IntRet(FullPrice(off)),
                     off |-> [off EXCEPT !.campaign = Str(MarkFailed(off.campaign.text))]]

----------------------------------------------------------------------------
(* str.strip() *)

RECURSIVE LStrip(_)
LStrip(t) == IF t /= <<>> /\ IsSpace(t[1]) THEN LStrip(Tail(t)) ELSE t

RECURSIVE RStrip(_)
RStrip(t) ==
    IF t /= <<>> /\ IsSpace(t[Len(t)]) THEN RStrip(SubSeq(t, 1, Len(t) - 1)) ELSE t

Strip(t) == RStrip(LStrip(t))

----------------------------------------------------------------------------
(* SpecCost: year_cost read on one Offer *)

\* the parts campaign texts are made of
Parts ==
    { <<"9">>, T_tre, <<"T", "r", "e">>, T_man, <<"M", "Å", "N">>, <<" ">>, <<"x">>,
      <<"9", "9", "k", "r">>, <<"5", " ", "k", "r">>, <<"0", " ", "K", "R">>,
      T_ett_halvar }

RECURSIVE TextsOf(_)
TextsOf(n) ==
    IF n = 0 THEN {<<>>}
    ELSE LET prev == TextsOf(n - 1) IN prev \cup {t \o p : t \in prev, p \in Parts}

\* parse_page strips the campaign text it stores
CampaignTexts == {t \in TextsOf(MaxParts) : Strip(t) = t}

ListPrices == {0, 7, 100}
StartCosts == {0, 5}

SomeIsp == <<"i", "s", "p">>

MkOffer(campaign, list_price, start_cost) ==
    [name |-> <<"n">>, banner |-> <<"b">>, isp |-> SomeIsp, campaign |-> campaign,
     bind_time |-> <<"1">>, leave_time |-> <<"1">>,
     list_price |-> list_price, speed_up |-> 10, speed_down |-> 100,
     start_cost |-> start_cost]

InitCost ==
    /\ o \in {MkOffer(c, lp, sc) :
                c \in {NoneVal} \cup {Str(t) : t \in CampaignTexts},
                lp \in ListPrices, sc \in StartCosts}
    /\ o0 = o
    /\ hist = <<>>
    /\ doc = <<>>
    /\ pc = "cost"
    /\ offers = <<>>
    /\ sheet = <<>>
    /\ exc = "none"

\* one read of o.year_cost
ReadYearCost ==
    /\ pc = "cost"
    /\ Len(hist) < MaxReads
    /\ \E r \in {year_cost(o)} :
           /\ o' = r.off
           /\ hist' = Append(hist, [ret |-> r.ret, campaign |-> r.off.campaign])
    /\ UNCHANGED <<doc, pc, offers, sheet, exc, o0>>

NextCost == ReadYearCost

SpecCost == InitCost /\ [][NextCost]_vars

----------------------------------------------------------------------------
(* str.split() *)

\* the index of the first c in t, 0 when there is none
IndexOf(t, c) ==
    IF \E i \in 1..Len(t) : t[i] = c
    THEN CHOOSE i \in 1..Len(t) : t[i] = c /\ \A j \in 1..(i - 1) : t[j] /= c
    ELSE 0

\* t.split(c)
RECURSIVE Split(_, _)
Split(t, c) ==
    IF IndexOf(t, c) = 0 THEN <<t>>
    ELSE <<SubSeq(t, 1, IndexOf(t, c) - 1)>>
         \o Split(SubSeq(t, IndexOf(t, c) + 1, Len(t)), c)

\* t.split(c, maxsplit=1)
SplitOnce(t, c) ==
    IF IndexOf(t, c) = 0 THEN <<t>>
    ELSE <<SubSeq(t, 1, IndexOf(t, c) - 1), SubSeq(t, IndexOf(t, c) + 1, Len(t))>>

\* the end of the run of non-blank characters that starts at 1
TokenEnd(t) ==
    CHOOSE j \in 1..Len(t) :
        /\ \A k \in 1..j : ~IsSpace(t[k])
        /\ (j = Len(t) \/ IsSpace(t[j + 1]))

\* t.split(): the runs of non-blank characters
RECURSIVE SplitWs(_)
SplitWs(t) ==
    LET s == LStrip(t)
    IN  IF s = <<>> THEN <<>>
        ELSE <<SubSeq(s, 1, TokenEnd(s))>> \o SplitWs(SubSeq(s, TokenEnd(s) + 1, Len(s)))

----------------------------------------------------------------------------
(* Regular expressions of parse_page *)

\* r"(\d+)[_/](\d+)" tried at position i
SpeedAt(s, i) ==
    /\ IsDigitAt(s, i)
    /\ DigitRunEnd(s, i) + 1 <= Len(s)
    /\ s[DigitRunEnd(s, i) + 1] \in {"_", "/"}
    /\ IsDigitAt(s, DigitRunEnd(s, i) + 2)

\* speed_re.search(s): the leftmost match, with group(1) and group(2)
SpeedSearch(s) ==
    LET hits == {i \in 1..Len(s) : SpeedAt(s, i)}
        i == CHOOSE h \in hits : \A j \in hits : h <= j
        e == DigitRunEnd(s, i)
    IN  IF hits = {} THEN [found |-> FALSE, g1 |-> <<>>, g2 |-> <<>>]
        ELSE [found |-> TRUE, g1 |-> SubSeq(s, i, e),
              g2 |-> SubSeq(s, e + 2, DigitRunEnd(s, e + 2))]

\* re.search(r"\d+", s): the leftmost run of digits
NumberSearch(s) ==
    LET hits == {i \in 1..Len(s) : IsDigitAt(s, i)}
        i == CHOOSE h \in hits : \A j \in hits : h <= j
    IN  IF hits = {} THEN [found |-> FALSE, g0 |-> <<>>]
        ELSE [found |-> TRUE, g0 |-> SubSeq(s, i, DigitRunEnd(s, i))]

----------------------------------------------------------------------------
(* parse_page *)

\* Offer(): every plain field None, no IntProp value set
NewOffer ==
    [name |-> <<>>, banner |-> <<>>, isp |-> <<>>, campaign |-> NoneVal,
     bind_time |-> <<>>, leave_time |-> <<>>,
     list_price |-> 0, speed_up |-> 0, speed_down |-> 0, start_cost |-> 0]

Failed(e) == [ok |-> FALSE, exc |-> e, off |-> NewOffer]
Built(off) == [ok |-> TRUE, exc |-> "none", off |-> off]

\* the banner searched before the name
ResolveSpeedBannerFirst(name, banner) ==
    LET inName == SpeedSearch(name)
        inBanner == SpeedSearch(banner)
        speed == IF inBanner.found THEN inBanner ELSE inName
        single == NumberSearch(banner)
    IN  IF speed.found
        THEN [found |-> TRUE, down |-> IntOf(speed.g1).val, up |-> IntOf(speed.g2).val]
        ELSE IF single.found
             THEN [found |-> TRUE, down |-> IntOf(single.g0).val, up |-> IntOf(single.g0).val]
             ELSE [found |-> FALSE, down |-> 0, up |-> 0]

\* the speeds of an offer: found, speed_down, speed_up
ResolveSpeed(name, banner) ==
    LET inName == SpeedSearch(name)
        inBanner == SpeedSearch(banner)
        speed == IF inName.found THEN inName ELSE inBanner   \* a or b
        single == NumberSearch(banner)
    IN  IF speed.found
        THEN [found |-> TRUE, down |-> IntOf(speed.g1).val, up |-> IntOf(speed.g2).val]
        ELSE IF single.found
             THEN [found |-> TRUE, down |-> IntOf(single.g0).val, up |-> IntOf(single.g0).val]
             ELSE [found |-> FALSE, down |-> 0, up |-> 0]

\* the body of the loop of parse_page, on one <article class="serviceOffer">.
\* An article is the record of what each selector finds in it: select()
\* gives the list of the texts (for .isp-link, of the href values) matched.
ParseOffer(a) ==
    LET banner == Strip(a.h4[1])
        name == a.product_name[1]
        href == Split(a.isp_link[1], "/")
        speed == ResolveSpeed(name, banner)
        price == SplitWs(a.endUserPrice[1])
        details == SplitOnce(Strip(a.campaignDetailsText[1]), "\n")
        conditions == Split(Strip(a.purchaseInformation[1]), "\n")
        s == SplitWs(conditions[1])
        b == Split(conditions[2], ":")
        l == Split(conditions[3], ":")
    IN  IF a.h4 = <<>> THEN Failed("IndexError")
        ELSE IF a.product_name = <<>> THEN Failed("IndexError")
        ELSE IF a.isp_link = <<>> \/ Len(href) < 4 THEN Failed("IndexError")
        ELSE IF ~speed.found THEN Failed("AttributeError")
        ELSE IF a.endUserPrice = <<>> \/ price = <<>> THEN Failed("IndexError")
        ELSE IF ~IntOf(price[1]).ok THEN Failed("ValueError")
        ELSE IF "campaign" \in a.classes
                /\ (a.campaignDetailsText = <<>> \/ Len(details) < 2)
             THEN Failed("IndexError")
        ELSE IF a.purchaseInformation = <<>> THEN Failed("IndexError")
        ELSE IF Len(conditions) /= 3 THEN Failed("ValueError")
        ELSE IF Len(s) < 2 THEN Failed("IndexError")
        ELSE IF ~IntOf(s[2]).ok THEN Failed("ValueError")
        ELSE IF Len(b) < 2 \/ Len(l) < 2 THEN Failed("IndexError")
        ELSE Built([name |-> name, banner |-> banner, isp |-> href[4],
                    campaign |-> IF "campaign" \in a.classes
                                 THEN Str(Strip(details[2])) ELSE NoneVal,
                    bind_time |-> Strip(b[2]), leave_time |-> Strip(l[2]),
                    list_price |-> IntOf(price[1]).val,
                    speed_up |-> speed.up, speed_down |-> speed.down,
                    start_cost |-> IntOf(s[2]).val])

\* soup.select("article.serviceOffer")
SelectOffers(d) == SelectSeq(d, LAMBDA a : "serviceOffer" \in a.classes)

\* the loop of parse_page: the first article that fails ends it
RECURSIVE ParseFrom(_, _)
ParseFrom(arts, acc) ==
    IF arts = <<>> THEN [ok |-> TRUE, exc |-> "none", offers |-> acc]
    ELSE IF ParseOffer(Head(arts)).ok
         THEN ParseFrom(Tail(arts), Append(acc, ParseOffer(Head(arts)).off))
         ELSE [ok |-> FALSE, exc |-> ParseOffer(Head(arts)).exc, offers |-> <<>>]

\* an article that fails is skipped and the rest returned
parse_page_best_effort(d) ==
    LET good == SelectSeq(SelectOffers(d), LAMBDA a : ParseOffer(a).ok)
    IN  [ok |-> TRUE, exc |-> "none",
         offers |-> [i \in 1..Len(good) |-> ParseOffer(good[i]).off]]

\* parse_page(file): the list returned, or the exception raised
parse_page(d) == ParseFrom(SelectOffers(d), <<>>)

----------------------------------------------------------------------------
(* write_xslx *)

\* the Offer property of each column, in column order
headers ==
    <<"isp", "speed_down", "speed_up", "list_price", "campaign", "start_cost",
      "bind_time", "year_cost">>

\* getattr(offer, attr): the value read and the Offer afterwards
GetAttr(off, attr) ==
    IF attr = "year_cost" THEN year_cost(off) ELSE [ret |-> off[attr], off |-> off]

\* the inner loop of write_xslx on one offer, from column col on: the cells
\* of the row and the Offer afterwards, or the exception year_cost raised
RECURSIVE FillRow(_, _, _)
FillRow(off, col, cells) ==
    IF col > Len(headers) THEN [ok |-> TRUE, exc |-> "none", cells |-> cells, off |-> off]
    ELSE LET g == GetAttr(off, headers[col])
         IN  IF headers[col] = "year_cost" /\ g.ret.kind = "raise"
             THEN [ok |-> FALSE, exc |-> g.ret.exc, cells |-> cells, off |-> g.off]
             ELSE FillRow(g.off, col + 1, Append(cells, g.ret))

\* the outer loop of write_xslx, given the outcome done[i] of the inner loop
\* on offs[i]: it stops at the first row whose year_cost raises
SheetOf(offs, done) ==
    LET bad == {i \in 1..Len(offs) : ~done[i].ok}
        last == IF bad = {} THEN Len(offs) ELSE CHOOSE i \in bad : \A j \in bad : i <= j
    IN  [ok |-> bad = {},
         exc |-> IF bad = {} THEN "none" ELSE done[last].exc,
         rows |-> IF bad = {} THEN [i \in 1..Len(offs) |-> done[i].cells] ELSE <<>>,
         offers |-> [i \in 1..Len(offs) |-> IF i <= last THEN done[i].off ELSE offs[i]]]

\* write_xslx(offers): the rows saved (none when an exception ends it before
\* wb.save) and the offers afterwards.  Every Offer is an object of its own,
\* so the row of offers[i] and what its reads change depend on offers[i] alone.
write_xslx(offs) == SheetOf(offs, [i \in 1..Len(offs) |-> FillRow(offs[i], 1, <<>>)])

----------------------------------------------------------------------------
(* Spec: main() on a document *)

NL == <<"\n">>

N_pair == <<"1", "0", "0", "/", "1", "0", " ", "F">>          \* "100/10 F"
N_plain == <<"F", "i", "b", "e", "r">>                        \* "Fiber"
N_two == <<"a", " ", "1", "/", "2", " ", "3", "_", "4">>      \* "a 1/2 3_4"
B_single == <<"5", "0", "0", " ", "M", "b", "i", "t">>        \* "500 Mbit"
B_pair == <<" ", "2", "0", "_", "5", " ">>                    \* " 20_5 "
B_none == <<"S", "n", "a", "b", "b">>                         \* "Snabb"
H_good == <<"/", "k", "/", "i", "/", "b", "n", "h", "/", "x">>  \* "/k/i/bnh/x"
H_short == <<"/", "k", "/", "i">>                             \* "/k/i"
P_good == <<"2", "9", "9", " ", "k", "r">>                    \* "299 kr"
P_bad == <<"f", "r", " ", "2", "9", "9">>                     \* "fr 299"
K_label == <<"K", "a", "m", "p", "a", "n", "j">>              \* "Kampanj"
K_resolved == <<"9", "m", "å", "n", " ", "9", "9", "k", "r">>  \* "9mån 99kr"
K_unresolved == <<" ", "H", "a", "l", "v", "a", " ">>         \* " Halva "
K_tre == <<"T", "r", "e", " ", "m", "å", "n">>                \* "Tre mån"
L_start == <<"S", ":", " ", "9", "5", " ", "k", "r">>         \* "S: 95 kr"
L_bind == <<"B", ":", " ", "3", " ", "m">>                    \* "B: 3 m"
L_leave == <<"U", ":", "1">>                                  \* "U:1"
L_nocolon == <<"B", " ", "3">>                                \* "B 3"
C_three == NL \o L_start \o NL \o L_bind \o NL \o L_leave \o NL
C_two == L_start \o NL \o L_bind
C_four == L_start \o NL \o L_bind \o NL \o L_leave \o NL \o L_leave
C_nocolon == L_start \o NL \o L_nocolon \o NL \o L_leave

\* an offer without campaign: the speed pair is in the name
PlainArticle ==
    [classes |-> {"serviceOffer"}, h4 |-> <<B_single>>, product_name |-> <<N_pair>>,
     isp_link |-> <<H_good>>, endUserPrice |-> <<P_good>>, campaignDetailsText |-> <<>>,
     purchaseInformation |-> <<C_three>>]

\* a campaign offer: the speed pair is in the banner
CampaignArticle(text) ==
    [PlainArticle EXCEPT !.classes = {"serviceOffer", "campaign"},
                         !.h4 = <<B_pair>>, !.product_name = <<N_plain>>,
                         !.campaignDetailsText = <<K_label \o NL \o text>>]

Articles ==
    { PlainArticle,
      CampaignArticle(K_resolved),
      CampaignArticle(K_unresolved),
      CampaignArticle(K_tre),
      [CampaignArticle(K_unresolved) EXCEPT !.campaignDetailsText = <<K_label>>],
      [PlainArticle EXCEPT !.classes = {"teaser"}],
      [PlainArticle EXCEPT !.product_name = <<N_plain>>],
      [PlainArticle EXCEPT !.product_name = <<N_two>>, !.h4 = <<B_pair>>],
      [PlainArticle EXCEPT !.product_name = <<N_plain>>, !.h4 = <<B_none>>],
      [PlainArticle EXCEPT !.h4 = <<>>],
      [PlainArticle EXCEPT !.isp_link = <<H_short>>],
      [PlainArticle EXCEPT !.endUserPrice = <<P_bad>>],
      [PlainArticle EXCEPT !.purchaseInformation = <<C_two>>],
      [PlainArticle EXCEPT !.purchaseInformation = <<C_four>>],
      [PlainArticle EXCEPT !.purchaseInformation = <<C_nocolon>>] }

RECURSIVE DocsOf(_)
DocsOf(n) ==
    IF n = 0 THEN {<<>>}
    ELSE LET prev == DocsOf(n - 1) IN prev \cup {Append(d, a) : d \in prev, a \in Articles}

Init ==
    /\ doc \in DocsOf(MaxArticles)
    /\ pc = "start"
    /\ offers = <<>>
    /\ sheet = <<>>
    /\ exc = "none"
    /\ o = NewOffer
    /\ o0 = NewOffer
    /\ hist = <<>>

\* offers = parse_page(INTERNET_FILE)
ParsePage ==
    /\ pc = "start"
    /\ \E r \in {parse_page(doc)} :
           IF r.ok
           THEN pc' = "parsed" /\ offers' = r.offers /\ exc' = exc
           ELSE pc' = "parse_page raised" /\ offers' = offers /\ exc' = r.exc
    /\ UNCHANGED <<doc, sheet, o, o0, hist>>

\* write_xslx(offers)
WriteXlsx ==
    /\ pc = "parsed"
    /\ \E r \in {write_xslx(offers)} :
           /\ offers' = r.offers
           /\ sheet' = r.rows
           /\ exc' = r.exc
           /\ pc' = IF r.ok THEN "written" ELSE "write_xslx raised"
    /\ UNCHANGED <<doc, o, o0, hist>>

Next == ParsePage \/ WriteXlsx

Spec == Init /\ [][Next]_vars

----------------------------------------------------------------------------
(* Properties of year_cost, checked under SpecCost.  Each is stated on the  *)
(* last read made; every earlier read is the last read of an earlier state. *)

HasRead == pc = "cost" /\ hist /= <<>>

\* what the last read returned
LastRet == hist[Len(hist)].ret

\* the campaign field just before and just after the last read
CampaignBefore == IF Len(hist) = 1 THEN o0.campaign ELSE hist[Len(hist) - 1].campaign
CampaignAfter == hist[Len(hist)].campaign

\* the campaign is a non-empty text
HasCampaign(c) == ~c.isNone /\ c.text /= <<>>

\* the campaign text matches neither the month pattern nor "ett halvår"
Unresolved(c) ==
    HasCampaign(c) /\ ~MonthsSearch(c.text).found /\ ~Contains(c.text, T_ett_halvar)

\* the campaign text resolves to a duration of m months
ResolvesTo(c, m) ==
    HasCampaign(c) /\ ResolveMonths(c.text) = [kind |-> "months", m |-> m]

Resolved(c) == HasCampaign(c) /\ ResolveMonths(c.text).kind = "months"

\* the duration a Resolved campaign resolves to
MonthsOf(c) == ResolveMonths(c.text).m

\* the reduced price found in the campaign text, 0 when none is found
PriceFound(c) ==
    IF PriceSearch(c.text).found THEN DigitsVal(PriceSearch(c.text).group) ELSE 0

\* the value v returned as a Python int
ReturnsInt(v) == LastRet.kind = "int" /\ LastRet.twice = 2 * v

T_99kr == <<"9", "9", "k", "r">>

\* C1: with campaign None, year_cost returns exactly start_cost + 12*list_price.
C1_NoCampaign ==
    HasRead /\ CampaignBefore.isNone
        => ReturnsInt(o0.start_cost + 12 * o0.list_price)

C1_Witness ==
    /\ HasRead /\ CampaignBefore.isNone
    /\ o0.list_price = 7 /\ o0.start_cost = 5
    /\ LastRet = [kind |-> "int", twice |-> 178, exc |-> "none"]

\* C2: with a duration of m months and a reduced price r /= 0 found in the
\* campaign text, year_cost returns m*r + (12-m)*list_price + start_cost;
\* "tremån99kr" gives 3*99 + 9*list_price + start_cost.
C2_ReducedPrice ==
    HasRead =>
        /\ Resolved(CampaignBefore) /\ PriceFound(CampaignBefore) /= 0
              => ReturnsInt(MonthsOf(CampaignBefore) * PriceFound(CampaignBefore)
                            + (12 - MonthsOf(CampaignBefore)) * o0.list_price
                            + o0.start_cost)
        /\ CampaignBefore = Str(T_tre \o T_man \o T_99kr)
              => ReturnsInt(3 * 99 + 9 * o0.list_price + o0.start_cost)

C2_Witness ==
    /\ HasRead
    /\ CampaignBefore = Str(T_tre \o T_man \o T_99kr)
    /\ o0.list_price = 100 /\ o0.start_cost = 5
    /\ LastRet = [kind |-> "int", twice |-> 2404, exc |-> "none"]

\* C3: with a duration of m months and no reduced price found, or a reduced
\* price of zero, 2*year_cost = list_price*(24-m) + 2*start_cost and the value
\* is a float; "ett halvår" alone gives m = 6.
C3_HalfPrice ==
    HasRead =>
        /\ Resolved(CampaignBefore) /\ PriceFound(CampaignBefore) = 0
              => /\ LastRet.kind = "float"
                 /\ LastRet.twice = o0.list_price * (24 - MonthsOf(CampaignBefore))
                                    + 2 * o0.start_cost
        /\ CampaignBefore = Str(T_ett_halvar)
              => LastRet.twice = o0.list_price * 18 + 2 * o0.start_cost

C3_Witness ==
    /\ HasRead
    /\ ResolvesTo(CampaignBefore, 9)
    /\ PriceSearch(CampaignBefore.text).found /\ PriceFound(CampaignBefore) = 0
    /\ o0.list_price = 7
    /\ LastRet.kind = "float" /\ LastRet.twice = 7 * 15 + 2 * o0.start_cost

\* C4: with a non-empty campaign text that matches no duration pattern,
\* year_cost raises nothing, returns start_cost + 12*list_price and leaves
\* campaign = marker + the text it had.
C4_Unresolved ==
    HasRead /\ Unresolved(CampaignBefore)
        => /\ ReturnsInt(o0.start_cost + 12 * o0.list_price)
           /\ CampaignAfter = Str(Marker \o CampaignBefore.text)

C4_Witness ==
    /\ HasRead /\ Len(hist) = 1
    /\ o0.campaign = Str(<<"x", " ", "9">>)
    /\ o0.list_price = 100 /\ o0.start_cost = 5
    /\ LastRet = [kind |-> "int", twice |-> 2410, exc |-> "none"]
    /\ o.campaign.text = Marker \o <<"x", " ", "9">>

\* C6 (as claimed): when the month pattern matches the word "tre" in any
\* letter case, year_cost takes 3 months and returns a cost without raising.
C6_TreAnyCase ==
    HasRead /\ HasCampaign(CampaignBefore)
        /\ MonthsSearch(CampaignBefore.text).found
        /\ MatchAt(MonthsSearch(CampaignBefore.text).group, 1, T_tre)
        => /\ LastRet.kind /= "raise"
           /\ ResolvesTo(CampaignBefore, 3)

RECURSIVE Markers(_)
Markers(k) == IF k = 0 THEN <<>> ELSE Marker \o Markers(k - 1)

\* C9 (as claimed): every read returns what the first returned, and the
\* campaign after any read is the campaign after the first read.
C9_Idempotent ==
    HasRead => LastRet = hist[1].ret /\ CampaignAfter = hist[1].campaign

\* C9 (amended): every read returns what the first returned; a campaign that
\* matches no duration pattern gets one more marker at every read, so after k
\* reads it is k markers followed by the original text; on any other Offer no
\* read changes a field; no read changes a field other than campaign.
C9_MarkerPerRead ==
    HasRead =>
        /\ LastRet = hist[1].ret
        /\ o = [o0 EXCEPT !.campaign = CampaignAfter]
        /\ IF Unresolved(o0.campaign)
           THEN CampaignAfter = Str(Markers(Len(hist)) \o o0.campaign.text)
           ELSE CampaignAfter = o0.campaign

C9_Witness ==
    /\ HasRead /\ Len(hist) = 2
    /\ o0.campaign = Str(<<"x">>)
    /\ hist[1].campaign = Str(Marker \o <<"x">>)
    /\ hist[2].campaign = Str(Marker \o Marker \o <<"x">>)
    /\ hist[2].ret = hist[1].ret

\* C10 (as claimed): with list_price >= 0 and start_cost >= 0, year_cost is
\* never below start_cost, whatever the campaign text.
C10_NeverBelowStart ==
    HasRead /\ LastRet.kind /= "raise" => LastRet.twice >= 2 * o0.start_cost

\* C10 (amended): with list_price >= 0 and start_cost >= 0, a value year_cost
\* returns is never below start_cost unless the campaign resolves to a
\* duration of more than 12 months.
C10_NotBelowStartUpTo12 ==
    HasRead /\ LastRet.kind /= "raise"
        /\ ~(Resolved(CampaignBefore) /\ MonthsOf(CampaignBefore) > 12)
        => LastRet.twice >= 2 * o0.start_cost

C10_Witness ==
    /\ HasRead
    /\ ResolvesTo(CampaignBefore, 9)
    /\ PriceFound(CampaignBefore) = 99
    /\ o0.list_price = 100 /\ o0.start_cost = 5
    /\ LastRet.twice = 2 * (9 * 99 + 3 * 100 + 5)

----------------------------------------------------------------------------
(* Properties of parse_page and write_xslx, checked under Spec *)

\* the offer fragments of the document, in document order
Fragments == SelectOffers(doc)

\* the number of lines of the conditions block of an article
ConditionLines(a) ==
    Cardinality({i \in 1..Len(Strip(a.purchaseInformation[1])) :
                    Strip(a.purchaseInformation[1])[i] = "\n"}) + 1

\* the text t starts with the text p
StartsWith(t, p) == Len(t) >= Len(p) /\ SubSeq(t, 1, Len(p)) = p

\* the column of the campaign ("Kampanj") in a row of the report
KampanjCol == CHOOSE c \in 1..Len(headers) : headers[c] = "campaign"

\* C5 (as claimed): in the report written from freshly parsed offers, the
\* campaign cell of every offer whose campaign matches no duration pattern
\* starts with the failure marker.
C5_MarkerInReport ==
    pc = "written" =>
        \A i \in 1..Len(sheet) :
            Unresolved(parse_page(doc).offers[i].campaign)
                => StartsWith(sheet[i][KampanjCol].text, Marker)

\* C7: parse_page is all-or-nothing.  When it returns, it returns one record
\* per offer fragment, in document order, record i built from fragment i, and
\* every conditions block has three lines; when a fragment fails, it raises
\* and the caller gets no list, not even the records of earlier fragments.  A
\* conditions block of other than three lines always makes it raise.
C7_AllOrNothing ==
    /\ pc = "parsed" =>
          /\ Len(offers) = Len(Fragments)
          /\ \A i \in 1..Len(Fragments) :
                /\ offers[i].name = Fragments[i].product_name[1]
                /\ offers[i].banner = Strip(Fragments[i].h4[1])
                /\ offers[i].campaign.isNone = ("campaign" \notin Fragments[i].classes)
                /\ ConditionLines(Fragments[i]) = 3
    /\ pc = "parse_page raised" =>
          /\ offers = <<>>
          /\ exc \in {"IndexError", "ValueError", "AttributeError"}
          /\ \E i \in 1..Len(Fragments) : ~ParseOffer(Fragments[i]).ok
    /\ pc /= "start" /\ (\E i \in 1..Len(Fragments) : ConditionLines(Fragments[i]) /= 3)
          => pc = "parse_page raised"

C7_Witness ==
    /\ pc = "parse_page raised"
    /\ Len(Fragments) = 2
    /\ ParseOffer(Fragments[1]).ok
    /\ ConditionLines(Fragments[2]) = 2
    /\ exc = "ValueError"
    /\ offers = <<>>

\* the speeds a fragment must get: the first pair of the name, else the first
\* pair of the banner, else the first integer of the banner for both
PairIn(t) == SpeedSearch(t).found
NoSpeed(a) ==
    /\ ~PairIn(a.product_name[1])
    /\ ~PairIn(a.h4[1])
    /\ ~NumberSearch(a.h4[1]).found

\* C8: the speeds come from the first pair of the name when it has one, else
\* from the first pair of the banner, else both are the first integer of the
\* banner; a fragment with none of the three makes parse_page raise.  Name
\* "100/10 F" gives 100 down and 10 up; banner "500 Mbit" with no pair gives
\* 500 for both.
C8_SpeedPriority ==
    /\ pc = "parsed" =>
          \A i \in 1..Len(Fragments) :
              LET name == Fragments[i].product_name[1]
                  banner == Fragments[i].h4[1]
                  down == offers[i].speed_down
                  up == offers[i].speed_up
              IN  /\ PairIn(name) =>
                        /\ down = DigitsVal(SpeedSearch(name).g1)
                        /\ up = DigitsVal(SpeedSearch(name).g2)
                  /\ ~PairIn(name) /\ PairIn(banner) =>
                        /\ down = DigitsVal(SpeedSearch(banner).g1)
                        /\ up = DigitsVal(SpeedSearch(banner).g2)
                  /\ ~PairIn(name) /\ ~PairIn(banner) =>
                        /\ NumberSearch(banner).found
                        /\ down = DigitsVal(NumberSearch(banner).g0)
                        /\ up = down
                  /\ name = N_pair => down = 100 /\ up = 10
                  /\ name = N_plain /\ banner = B_single => down = 500 /\ up = 500
                  /\ name = N_two => down = 1 /\ up = 2
    /\ pc /= "start" /\ (\E i \in 1..Len(Fragments) :
                            Fragments[i].h4 /= <<>> /\ NoSpeed(Fragments[i]))
          => pc = "parse_page raised"

C8_Witness ==
    /\ pc = "parsed"
    /\ \E i \in 1..Len(Fragments) :
          /\ Fragments[i].product_name[1] = N_two
          /\ PairIn(Fragments[i].h4[1])
          /\ offers[i].speed_down = 1 /\ offers[i].speed_up = 2
    /\ \E i \in 1..Len(Fragments) :
          /\ Fragments[i].product_name[1] = N_plain
          /\ Fragments[i].h4[1] = B_single
          /\ offers[i].speed_down = 500 /\ offers[i].speed_up = 500

====
